---- MODULE Spec2Model ----
(***************************************************************************)
(* A model of the link finite state machine of lfsm.c: the action kfifo,   *)
(* the dispatcher work item, the two transition work items, the watchdog   *)
(* delayed work, the spinlock, and the exported calls lfsm_link_up,        *)
(* lfsm_link_down and lfsm_force_down.                                     *)
(*                                                                         *)
(* Work items follow the kernel workqueue contract: a work item is either  *)
(* pending or not (queue_work on a pending item does nothing), an item is  *)
(* never run by two threads at once, and cancel_work_sync takes the        *)
(* pending bit away, refuses re-queueing while it is in progress, and      *)
(* returns only when no execution of the item is running.                  *)
(*                                                                         *)
(* lfsm_lock is a kernel spinlock.  The module uses it in two ways whose    *)
(* outcome depends on the kernel build, and both builds are explored:      *)
(*                                                                         *)
(*  - lfsm_link_up and lfsm_link_down take it and, still holding it, call  *)
(*    enqueue_lfsm_action, which takes it again;                           *)
(*  - the transition workers and the watchdog call cancel_*_sync, which    *)
(*    may sleep, with the lock held.                                       *)
(*                                                                         *)
(* "SMP": spinlocks are real.  A thread enters a locked section only when  *)
(* no thread is in one, so the nested acquire spins on itself for ever.    *)
(* "UP": spin_lock compiles to a preemption switch.  The nested acquire    *)
(* passes; code between spin_lock and spin_unlock runs without            *)
(* interruption up to the next point where it sleeps, and a thread         *)
(* sleeping in cancel_*_sync inside a locked section keeps nobody out.     *)
(* lfsm_lock is the set of threads inside a locked section.                *)
(***************************************************************************)
EXTENDS Naturals, Sequences, FiniteSets, TLC

VARIABLES
    build,            \* "SMP" or "UP": what a nested spin_lock does
    link_lfsm_state,  \* lfsm.c:36
    lfsm_queue,       \* lfsm.c:35, the kfifo as a sequence, front first
    lfsm_work_active, \* lfsm.c:44
    lfsm_lock,        \* lfsm.c:37, the threads inside a locked section
    pending,          \* work item -> its pending bit (armed timer included)
    canceling,        \* work item -> threads inside cancel_*_sync on it
    wpc,              \* work item -> where its running execution is
    rpc,              \* API caller -> where it is inside lfsm_link_up/down
    rlast,            \* API caller -> its last returned call
    fpc,              \* where the lfsm_force_down caller is
    fseen,            \* the state the last lfsm_force_down overwrote
    mcast             \* transition work item -> what its running execution's
                      \* lfsm_notify_state has multicast

vars == << build, link_lfsm_state, lfsm_queue, lfsm_work_active, lfsm_lock,
           pending, canceling, wpc, rpc, rlast, fpc, fseen, mcast >>

\* ---------------------------------------------------------------- constants

\* DEFINE_KFIFO(lfsm_queue, struct lfsm_action, 16)
KFIFO_SIZE == 16

\* Under Spec, callers stop adding actions once this many are queued.
MaxQueued == 2

\* The threads calling lfsm_link_up / lfsm_link_down.  A call runs from its
\* first spin_lock to its last spin_unlock with lfsm_lock held, so calls made
\* by several threads happen one after the other, as one thread's calls do.
Callers == { "caller" }

LINK_DOWN == "LINK_DOWN"
LINK_STARTING == "LINK_STARTING"
LINK_UP == "LINK_UP"
LINK_STOPPING == "LINK_STOPPING"
link_state == { LINK_DOWN, LINK_STARTING, LINK_UP, LINK_STOPPING }

LFSM_ACT_LINK_UP == "LFSM_ACT_LINK_UP"
LFSM_ACT_LINK_DOWN == "LFSM_ACT_LINK_DOWN"
lfsm_action_type == { LFSM_ACT_LINK_UP, LFSM_ACT_LINK_DOWN }

\* The four work items, named as in lfsm.c:40-43.
lfsm_worker == "lfsm_worker"
lfsm_up_work == "lfsm_up_work"
lfsm_down_work == "lfsm_down_work"
lfsm_timeout_work == "lfsm_timeout_work"
Works == { lfsm_worker, lfsm_up_work, lfsm_down_work, lfsm_timeout_work }

\* The thread that called lfsm_force_down.
Forcer == "force_down"

\* ------------------------------------------------------------------ helpers

\* kfifo_in as it would be without the test for a full fifo.
kfifo_in_unchecked(q, a) == Append(q, a)

\* kfifo_in(&lfsm_queue, &act, 1): stores the element unless the fifo is
\* full; the call's return value is the number of elements stored.
kfifo_in(q, a) == IF Len(q) < KFIFO_SIZE THEN Append(q, a) ELSE q

\* kfifo_out as it would be if it took the newest element, not the oldest.
kfifo_out_newest(q) ==
    [ act |-> q[Len(q)], rest |-> SubSeq(q, 1, Len(q) - 1) ]

\* kfifo_out(&lfsm_queue, &act, 1) on a fifo that is not empty: the oldest
\* element is copied out and removed.
kfifo_out(q) == [ act |-> Head(q), rest |-> Tail(q) ]

\* kfifo_reset as it would be if it left the fifo's contents in place.
kfifo_reset_nothing(q) == q

\* kfifo_reset(&lfsm_queue)
kfifo_reset(q) == << >>

\* queue_work / queue_delayed_work on item w: sets the pending bit unless it
\* is already set or a cancel_*_sync on w is in progress.
queue_work(p, c, w) ==
    IF p[w] \/ c[w] # {} THEN p ELSE [p EXCEPT ![w] = TRUE]

\* spin_lock(&lfsm_lock) by thread t returns.  SMP: no thread is in a locked
\* section.  UP: no other thread is running in one; the threads found in
\* one are then work items asleep in cancel_*_sync, since a caller's section
\* has no point where it sleeps.
spin_lock_passes(t) ==
    \/ lfsm_lock = {}
    \/ build = "UP" /\ lfsm_lock \cap Callers \subseteq {t}

\* lfsm_link_up's branch as it would be without the LINK_UP case.
link_up_branch_no_up(st) ==
    IF st = LINK_DOWN \/ st = LINK_UP THEN "enqueue" ELSE "-EBUSY"

\* The branch lfsm_link_up takes on the state it reads under the lock.
link_up_branch(st) ==
    IF st = LINK_DOWN THEN "enqueue"
    ELSE IF st = LINK_UP THEN "0"
    ELSE "-EBUSY"

\* lfsm_link_down's branch as it would be without the -EBUSY case.
link_down_branch_no_busy(st) ==
    IF st = LINK_DOWN THEN "0" ELSE "enqueue"

\* The branch lfsm_link_down takes on the state it reads under the lock.
link_down_branch(st) ==
    IF st = LINK_UP THEN "enqueue"
    ELSE IF st = LINK_DOWN THEN "0"
    ELSE "-EBUSY"

\* ----------------------------------------------------------------- initial

Init ==
    /\ build \in { "SMP", "UP" }
    /\ link_lfsm_state = LINK_DOWN
    /\ lfsm_queue = << >>
    /\ lfsm_work_active = FALSE
    /\ lfsm_lock = {}
    /\ pending = [w \in Works |-> FALSE]
    /\ canceling = [w \in Works |-> {}]
    /\ wpc = [w \in Works |-> "idle"]
    /\ rpc = [c \in Callers |-> "idle"]
    /\ rlast = [c \in Callers |-> [op |-> "none", seen |-> "none", ret |-> "none"]]
    /\ fpc = "idle"
    /\ fseen = "none"
    /\ mcast = [w \in { lfsm_up_work, lfsm_down_work } |-> "none"]

\* ------------------------------------------------------------ the API calls

\* lfsm_link_up, from the call to its return or, when it decides to enqueue,
\* to the call of enqueue_lfsm_action (made with lfsm_lock held).
lfsm_link_up(c) ==
    /\ rpc[c] = "idle"
    /\ spin_lock_passes(c)
    /\ LET b == link_up_branch(link_lfsm_state) IN
         IF b = "enqueue"
         THEN /\ lfsm_lock' = lfsm_lock \cup {c}
              /\ rpc' = [rpc EXCEPT ![c] = "enqueue_up"]
              /\ rlast' = [rlast EXCEPT ![c] =
                     [op |-> "lfsm_link_up", seen |-> link_lfsm_state, ret |-> "none"]]
         ELSE /\ rlast' = [rlast EXCEPT ![c] =
                     [op |-> "lfsm_link_up", seen |-> link_lfsm_state, ret |-> b]]
              /\ UNCHANGED << lfsm_lock, rpc >>
    /\ UNCHANGED << mcast, build, link_lfsm_state, lfsm_queue, lfsm_work_active,
                    pending, canceling, wpc, fpc, fseen >>

\* lfsm_link_down, likewise.
lfsm_link_down(c) ==
    /\ rpc[c] = "idle"
    /\ spin_lock_passes(c)
    /\ LET b == link_down_branch(link_lfsm_state) IN
         IF b = "enqueue"
         THEN /\ lfsm_lock' = lfsm_lock \cup {c}
              /\ rpc' = [rpc EXCEPT ![c] = "enqueue_down"]
              /\ rlast' = [rlast EXCEPT ![c] =
                     [op |-> "lfsm_link_down", seen |-> link_lfsm_state, ret |-> "none"]]
         ELSE /\ rlast' = [rlast EXCEPT ![c] =
                     [op |-> "lfsm_link_down", seen |-> link_lfsm_state, ret |-> b]]
              /\ UNCHANGED << lfsm_lock, rpc >>
    /\ UNCHANGED << mcast, build, link_lfsm_state, lfsm_queue, lfsm_work_active,
                    pending, canceling, wpc, fpc, fseen >>

\* The action type the caller passes to enqueue_lfsm_action.
enqueue_type(c) ==
    IF rpc[c] = "enqueue_up" THEN LFSM_ACT_LINK_UP ELSE LFSM_ACT_LINK_DOWN

\* enqueue_lfsm_action's wake-up test: the dispatcher is queued only when no
\* dispatcher is marked active.
enqueue_wakes(active) == ~active

\* enqueue_lfsm_action called by lfsm_link_up / lfsm_link_down, and the
\* caller's two unlocks and return.  Its spin_lock_irqsave is a nested
\* acquire: the caller is in a locked section already, so this step exists
\* in the UP build only; in the SMP build the caller stays here, spinning,
\* for ever.
enqueue_lfsm_action(c) ==
    /\ rpc[c] \in { "enqueue_up", "enqueue_down" }
    /\ spin_lock_passes(c)
    /\ LET q == kfifo_in(lfsm_queue, enqueue_type(c))
           stored == Len(q) - Len(lfsm_queue)
           wake == stored # 0 /\ enqueue_wakes(lfsm_work_active)
       IN /\ lfsm_queue' = q
          /\ lfsm_work_active' = (lfsm_work_active \/ wake)
          /\ pending' = IF wake THEN queue_work(pending, canceling, lfsm_worker)
                        ELSE pending
          /\ rlast' = [rlast EXCEPT ![c].ret =
                          IF stored = 0 THEN "-ENOSPC" ELSE "0"]
    /\ lfsm_lock' = lfsm_lock \ {c}
    /\ rpc' = [rpc EXCEPT ![c] = "idle"]
    /\ UNCHANGED << mcast, build, link_lfsm_state, canceling, wpc, fpc, fseen >>

\* ------------------------------------------------------------ the dispatcher

\* A worker thread of lfsm_wq takes a pending work item and starts running
\* it; an item already running is not started a second time.
work_starts(w) == pending[w] /\ wpc[w] = "idle"

\* The workqueue starts lfsm_dispatch_worker.
dispatch_start ==
    /\ work_starts(lfsm_worker)
    /\ pending' = [pending EXCEPT ![lfsm_worker] = FALSE]
    /\ wpc' = [wpc EXCEPT ![lfsm_worker] = "spin_lock"]
    /\ UNCHANGED << mcast, build, link_lfsm_state, lfsm_queue, lfsm_work_active,
                    lfsm_lock, canceling, rpc, rlast, fpc, fseen >>

\* The transient state the dispatcher sets for a popped action.
dispatch_state(act) ==
    IF act = LFSM_ACT_LINK_UP THEN LINK_STARTING ELSE LINK_STOPPING

\* The transition work item the dispatcher queues for a popped action.
dispatch_work(act) ==
    IF act = LFSM_ACT_LINK_UP THEN lfsm_up_work ELSE lfsm_down_work

\* lfsm_dispatch_worker, from spin_lock to spin_unlock.
lfsm_dispatch_worker ==
    /\ wpc[lfsm_worker] = "spin_lock"
    /\ spin_lock_passes(lfsm_worker)
    /\ IF lfsm_queue = << >>
       THEN /\ lfsm_work_active' = FALSE
            /\ UNCHANGED << link_lfsm_state, lfsm_queue, pending >>
       ELSE LET act == kfifo_out(lfsm_queue).act IN
            /\ lfsm_queue' = kfifo_out(lfsm_queue).rest
            /\ link_lfsm_state' = dispatch_state(act)
            /\ pending' = queue_work(
                              queue_work(pending, canceling, lfsm_timeout_work),
                              canceling, dispatch_work(act))
            /\ UNCHANGED lfsm_work_active
    /\ wpc' = [wpc EXCEPT ![lfsm_worker] = "idle"]
    /\ UNCHANGED << mcast, build, lfsm_lock, canceling, rpc, rlast, fpc, fseen >>

\* ----------------------------------------------------- the transition workers

\* The workqueue starts lfsm_up_worker or lfsm_down_worker, which goes to
\* sleep in msleep(LFSM_DELAY_MS).
transition_start(w) ==
    /\ w \in { lfsm_up_work, lfsm_down_work }
    /\ work_starts(w)
    /\ pending' = [pending EXCEPT ![w] = FALSE]
    /\ wpc' = [wpc EXCEPT ![w] = "msleep"]
    /\ UNCHANGED << mcast, build, link_lfsm_state, lfsm_queue, lfsm_work_active,
                    lfsm_lock, canceling, rpc, rlast, fpc, fseen >>

\* msleep returns.
transition_wake(w) ==
    /\ w \in { lfsm_up_work, lfsm_down_work }
    /\ wpc[w] = "msleep"
    /\ wpc' = [wpc EXCEPT ![w] = "spin_lock"]
    /\ UNCHANGED << mcast, build, link_lfsm_state, lfsm_queue, lfsm_work_active,
                    lfsm_lock, pending, canceling, rpc, rlast, fpc, fseen >>

\* The worker takes lfsm_lock and enters cancel_delayed_work_sync on the
\* watchdog: the timer is deleted and the pending bit taken.
transition_lock(w) ==
    /\ w \in { lfsm_up_work, lfsm_down_work }
    /\ wpc[w] = "spin_lock"
    /\ spin_lock_passes(w)
    /\ lfsm_lock' = lfsm_lock \cup {w}
    /\ pending' = [pending EXCEPT ![lfsm_timeout_work] = FALSE]
    /\ canceling' = [canceling EXCEPT ![lfsm_timeout_work] = @ \cup {w}]
    /\ wpc' = [wpc EXCEPT ![w] = "cancel_timeout"]
    /\ UNCHANGED << mcast, build, link_lfsm_state, lfsm_queue, lfsm_work_active,
                    rpc, rlast, fpc, fseen >>

\* The state lfsm_up_worker / lfsm_down_worker commits.
commit_state(w, st) == IF w = lfsm_up_work THEN LINK_UP ELSE LINK_DOWN

\* cancel_delayed_work_sync returns once no lfsm_timeout_worker is running;
\* the worker commits its state, queues the dispatcher and unlocks.
transition_commit(w) ==
    /\ w \in { lfsm_up_work, lfsm_down_work }
    /\ wpc[w] = "cancel_timeout"
    /\ wpc[lfsm_timeout_work] = "idle"
    /\ LET c == [canceling EXCEPT ![lfsm_timeout_work] = @ \ {w}] IN
         /\ canceling' = c
         /\ pending' = queue_work(pending, c, lfsm_worker)
    /\ link_lfsm_state' = commit_state(w, link_lfsm_state)
    /\ lfsm_lock' = lfsm_lock \ {w}
    /\ wpc' = [wpc EXCEPT ![w] = "notify"]
    /\ UNCHANGED << mcast, build, lfsm_queue, lfsm_work_active, rpc, rlast, fpc, fseen >>

\* lfsm_notify_state as it would be if both workers passed LINK_UP.
notify_state_up(w) == LINK_UP

\* The state lfsm_up_worker / lfsm_down_worker passes to lfsm_notify_state
\* and to the notifier chain.
notify_state(w) == IF w = lfsm_up_work THEN LINK_UP ELSE LINK_DOWN

\* lfsm_notify_state, outside the lock: one message carrying the state is
\* multicast, or none when genlmsg_new, genlmsg_put or nla_put_u32 fails.
lfsm_notify_state(w) ==
    /\ w \in { lfsm_up_work, lfsm_down_work }
    /\ wpc[w] = "notify"
    /\ \E m \in { notify_state(w), "dropped" } :
           mcast' = [mcast EXCEPT ![w] = m]
    /\ wpc' = [wpc EXCEPT ![w] = "call_chain"]
    /\ UNCHANGED << build, link_lfsm_state, lfsm_queue, lfsm_work_active,
                    lfsm_lock, pending, canceling, rpc, rlast, fpc, fseen >>

\* blocking_notifier_call_chain calls every registered observer once with
\* notify_state(w); the work function returns.
transition_notify(w) ==
    /\ w \in { lfsm_up_work, lfsm_down_work }
    /\ wpc[w] = "call_chain"
    /\ wpc' = [wpc EXCEPT ![w] = "idle"]
    /\ mcast' = [mcast EXCEPT ![w] = "none"]
    /\ UNCHANGED << build, link_lfsm_state, lfsm_queue, lfsm_work_active,
                    lfsm_lock, pending, canceling, rpc, rlast, fpc, fseen >>

\* --------------------------------------------------------------- the watchdog

\* The watchdog's timer expires and the workqueue starts lfsm_timeout_worker.
\* Time is not modelled: an armed watchdog may expire at any moment.
timeout_fire ==
    /\ work_starts(lfsm_timeout_work)
    /\ pending' = [pending EXCEPT ![lfsm_timeout_work] = FALSE]
    /\ wpc' = [wpc EXCEPT ![lfsm_timeout_work] = "spin_lock"]
    /\ UNCHANGED << mcast, build, link_lfsm_state, lfsm_queue, lfsm_work_active,
                    lfsm_lock, canceling, rpc, rlast, fpc, fseen >>

\* lfsm_timeout_worker takes lfsm_lock and enters cancel_work_sync on
\* lfsm_up_work.
timeout_lock ==
    /\ wpc[lfsm_timeout_work] = "spin_lock"
    /\ spin_lock_passes(lfsm_timeout_work)
    /\ lfsm_lock' = lfsm_lock \cup {lfsm_timeout_work}
    /\ pending' = [pending EXCEPT ![lfsm_up_work] = FALSE]
    /\ canceling' = [canceling EXCEPT ![lfsm_up_work] = @ \cup {lfsm_timeout_work}]
    /\ wpc' = [wpc EXCEPT ![lfsm_timeout_work] = "cancel_up"]
    /\ UNCHANGED << mcast, build, link_lfsm_state, lfsm_queue, lfsm_work_active,
                    rpc, rlast, fpc, fseen >>

\* cancel_work_sync(&lfsm_up_work) returns once lfsm_up_worker is not
\* running; cancel_work_sync(&lfsm_down_work) is entered.
timeout_cancel_up ==
    /\ wpc[lfsm_timeout_work] = "cancel_up"
    /\ wpc[lfsm_up_work] = "idle"
    /\ pending' = [pending EXCEPT ![lfsm_down_work] = FALSE]
    /\ canceling' = [canceling EXCEPT
                        ![lfsm_up_work] = @ \ {lfsm_timeout_work},
                        ![lfsm_down_work] = @ \cup {lfsm_timeout_work}]
    /\ wpc' = [wpc EXCEPT ![lfsm_timeout_work] = "cancel_down"]
    /\ UNCHANGED << mcast, build, link_lfsm_state, lfsm_queue, lfsm_work_active,
                    lfsm_lock, rpc, rlast, fpc, fseen >>

\* lfsm_timeout_worker's final state as it would be without the assignment
\* of LINK_DOWN.
timeout_state_kept(st) == st

\* The state lfsm_timeout_worker leaves behind.
timeout_state(st) == LINK_DOWN

\* cancel_work_sync(&lfsm_down_work) returns once lfsm_down_worker is not
\* running; the queue is reset, the state forced and the lock released.
timeout_reset ==
    /\ wpc[lfsm_timeout_work] = "cancel_down"
    /\ wpc[lfsm_down_work] = "idle"
    /\ canceling' = [canceling EXCEPT ![lfsm_down_work] = @ \ {lfsm_timeout_work}]
    /\ lfsm_queue' = kfifo_reset(lfsm_queue)
    /\ link_lfsm_state' = timeout_state(link_lfsm_state)
    /\ lfsm_work_active' = FALSE
    /\ lfsm_lock' = lfsm_lock \ {lfsm_timeout_work}
    /\ wpc' = [wpc EXCEPT ![lfsm_timeout_work] = "idle"]
    /\ UNCHANGED << mcast, build, pending, rpc, rlast, fpc, fseen >>

\* ------------------------------------------------------------ lfsm_force_down

\* The order in which lfsm_force_down cancels the work items.
force_down_order ==
    << lfsm_worker, lfsm_up_work, lfsm_down_work, lfsm_timeout_work >>

\* The work item lfsm_force_down is cancelling at position n of its order.
force_down_pc(n) ==
    IF n > Len(force_down_order) THEN "spin_lock" ELSE force_down_order[n]

\* lfsm_force_down is called and enters cancel_work_sync(&lfsm_worker).
force_down_call ==
    /\ fpc \in { "idle", "done" }
    /\ LET w == force_down_order[1] IN
         /\ pending' = [pending EXCEPT ![w] = FALSE]
         /\ canceling' = [canceling EXCEPT ![w] = @ \cup {Forcer}]
         /\ fpc' = force_down_pc(1)
    /\ fseen' = "none"
    /\ UNCHANGED << mcast, build, link_lfsm_state, lfsm_queue, lfsm_work_active,
                    lfsm_lock, wpc, rpc, rlast >>

\* The cancel_*_sync lfsm_force_down is in returns, once the item is not
\* running, and the next one is entered; after the last, spin_lock is next.
force_down_cancel(n) ==
    /\ n \in 1 .. Len(force_down_order)
    /\ fpc = force_down_pc(n)
    /\ wpc[force_down_order[n]] = "idle"
    /\ fpc' = force_down_pc(n + 1)
    /\ IF n < Len(force_down_order)
       THEN /\ pending' = [pending EXCEPT ![force_down_order[n + 1]] = FALSE]
            /\ canceling' = [canceling EXCEPT
                                ![force_down_order[n]] = @ \ {Forcer},
                                ![force_down_order[n + 1]] = @ \cup {Forcer}]
       ELSE /\ canceling' = [canceling EXCEPT ![force_down_order[n]] = @ \ {Forcer}]
            /\ UNCHANGED pending
    /\ UNCHANGED << mcast, build, link_lfsm_state, lfsm_queue, lfsm_work_active,
                    lfsm_lock, wpc, rpc, rlast, fseen >>

\* The state lfsm_force_down leaves behind.
force_down_state(st) == LINK_DOWN

\* lfsm_force_down's locked section, and its return.
force_down_reset ==
    /\ fpc = "spin_lock"
    /\ spin_lock_passes(Forcer)
    /\ lfsm_queue' = kfifo_reset(lfsm_queue)
    /\ link_lfsm_state' = force_down_state(link_lfsm_state)
    /\ lfsm_work_active' = FALSE
    /\ fpc' = "done"
    /\ fseen' = link_lfsm_state
    /\ UNCHANGED << mcast, build, lfsm_lock, pending, canceling, wpc, rpc, rlast >>

\* ------------------------------------------------------------ specifications

\* The steps of the work items other than the watchdog.
WorkNext ==
    \/ dispatch_start
    \/ lfsm_dispatch_worker
    \/ \E w \in { lfsm_up_work, lfsm_down_work } : transition_start(w)
    \/ \E w \in { lfsm_up_work, lfsm_down_work } : transition_wake(w)
    \/ \E w \in { lfsm_up_work, lfsm_down_work } : transition_lock(w)
    \/ \E w \in { lfsm_up_work, lfsm_down_work } : transition_commit(w)
    \/ \E w \in { lfsm_up_work, lfsm_down_work } : lfsm_notify_state(w)
    \/ \E w \in { lfsm_up_work, lfsm_down_work } : transition_notify(w)

\* The steps of lfsm_link_up and lfsm_link_down callers.
CallNext ==
    \/ \E c \in Callers : lfsm_link_up(c)
    \/ \E c \in Callers : lfsm_link_down(c)
    \/ \E c \in Callers : enqueue_lfsm_action(c)

\* The steps of the watchdog's work function.
TimeoutNext ==
    \/ timeout_fire
    \/ timeout_lock
    \/ timeout_cancel_up
    \/ timeout_reset

\* The steps of the lfsm_force_down caller.
ForceNext ==
    \/ force_down_call
    \/ \E n \in 1 .. Len(force_down_order) : force_down_cancel(n)
    \/ force_down_reset

\* The callers' steps with the queue kept short: a call that would enqueue
\* is made only while fewer than MaxQueued actions are queued.
BoundedCallNext ==
    \/ \E c \in Callers :
          /\ link_up_branch(link_lfsm_state) = "enqueue" => Len(lfsm_queue) < MaxQueued
          /\ lfsm_link_up(c)
    \/ \E c \in Callers :
          /\ link_down_branch(link_lfsm_state) = "enqueue" => Len(lfsm_queue) < MaxQueued
          /\ lfsm_link_down(c)
    \/ \E c \in Callers : enqueue_lfsm_action(c)

Next == BoundedCallNext \/ WorkNext \/ TimeoutNext \/ ForceNext

\* Every thread of the module, every call and the watchdog free to fire.
Spec == Init /\ [][Next]_vars

\* Only lfsm_link_up / lfsm_link_down are called and every transition
\* finishes before its watchdog expires.
NextReq == CallNext \/ WorkNext

SpecReq == Init /\ [][NextReq]_vars

\* lfsm_force_down is called with no lfsm_link_up / lfsm_link_down call in
\* progress, and no such call is made from then on.
NextNoLateCalls ==
    \/ fpc = "idle" /\ BoundedCallNext
    \/ WorkNext
    \/ TimeoutNext
    \/ (\A c \in Callers : rpc[c] = "idle") /\ force_down_call
    \/ \E n \in 1 .. Len(force_down_order) : force_down_cancel(n)
    \/ force_down_reset

SpecNoLateCalls == Init /\ [][NextNoLateCalls]_vars

\* Requests, work items and the watchdog, under fair scheduling: a call in
\* progress goes on running, the workqueue runs every work item that stays
\* pending and every running work function goes on running unless it is
\* waiting, and a watchdog that stays armed expires.  Nothing obliges a
\* caller to issue a request.
NextLive == BoundedCallNext \/ WorkNext \/ TimeoutNext

SpecLive ==
    /\ Init
    /\ [][NextLive]_vars
    /\ \A c \in Callers : WF_vars(enqueue_lfsm_action(c))
    /\ WF_vars(dispatch_start \/ lfsm_dispatch_worker)
    /\ \A w \in { lfsm_up_work, lfsm_down_work } :
          WF_vars(\/ transition_start(w) \/ transition_wake(w)
                  \/ transition_lock(w) \/ transition_commit(w)
                  \/ lfsm_notify_state(w) \/ transition_notify(w))
    /\ WF_vars(TimeoutNext)

\* A step of a call in progress or of a work item: any step but the start of
\* a new lfsm_link_up, lfsm_link_down or lfsm_force_down call.
Progress ==
    \/ \E c \in Callers : enqueue_lfsm_action(c)
    \/ WorkNext
    \/ TimeoutNext
    \/ \E n \in 1 .. Len(force_down_order) : force_down_cancel(n)
    \/ force_down_reset

\* ------------------------------------------------------------------- claims

\* A work item is scheduled or running.
busy(w) == pending[w] \/ wpc[w] # "idle"

\* C1: a call to lfsm_link_up made in state LINK_DOWN, or to lfsm_link_down
\* made in state LINK_UP, with fewer than 16 actions queued, returns 0 having
\* appended exactly one action of its type to the back of the queue: a
\* caller that has taken the enqueue branch can always finish that way.
C1_AcceptedCallReturns ==
    \A c \in Callers :
        (rpc[c] # "idle" /\ Len(lfsm_queue) < KFIFO_SIZE) =>
            ENABLED ( /\ enqueue_lfsm_action(c)
                      /\ rlast'[c].ret = "0"
                      /\ lfsm_queue' = Append(lfsm_queue, enqueue_type(c)) )

\* C2: lfsm_link_up called in state LINK_UP and lfsm_link_down called in
\* state LINK_DOWN return 0 and change neither the queue, the state, the
\* active flag, the lock nor any work item.
C2_Idempotent ==
    [][ \A c \in Callers :
          /\ (lfsm_link_up(c) /\ link_lfsm_state = LINK_UP) =>
                /\ rlast'[c].ret = "0"
                /\ rpc'[c] = "idle"
                /\ UNCHANGED << lfsm_queue, link_lfsm_state, lfsm_work_active,
                                lfsm_lock, pending, canceling, wpc >>
          /\ (lfsm_link_down(c) /\ link_lfsm_state = LINK_DOWN) =>
                /\ rlast'[c].ret = "0"
                /\ rpc'[c] = "idle"
                /\ UNCHANGED << lfsm_queue, link_lfsm_state, lfsm_work_active,
                                lfsm_lock, pending, canceling, wpc >> ]_vars

\* C2's case: lfsm_link_up has returned 0 on finding the link up.
C2_Witness ==
    \E c \in Callers :
        /\ rpc[c] = "idle"
        /\ rlast[c] = [op |-> "lfsm_link_up", seen |-> LINK_UP, ret |-> "0"]

\* C3: lfsm_link_up or lfsm_link_down called in state LINK_STARTING or
\* LINK_STOPPING returns -EBUSY and changes neither the queue, the state nor
\* the active flag, and schedules nothing.
C3_BusyRejection ==
    [][ \A c \in Callers :
          ( /\ lfsm_link_up(c) \/ lfsm_link_down(c)
            /\ link_lfsm_state \in { LINK_STARTING, LINK_STOPPING } ) =>
                /\ rlast'[c].ret = "-EBUSY"
                /\ rpc'[c] = "idle"
                /\ UNCHANGED << lfsm_queue, link_lfsm_state, lfsm_work_active,
                                lfsm_lock, pending, canceling, wpc >> ]_vars

\* C3's case: lfsm_link_down has returned -EBUSY on finding the link starting.
C3_Witness ==
    \E c \in Callers :
        /\ rpc[c] = "idle"
        /\ rlast[c] = [op |-> "lfsm_link_down", seen |-> LINK_STARTING, ret |-> "-EBUSY"]

\* C4: the queue never holds more than 16 actions, and an enqueue attempted
\* while it holds 16 returns -ENOSPC, leaves the queue and the active flag
\* as they are and schedules no work item.
C4_Capacity ==
    /\ [](Len(lfsm_queue) <= KFIFO_SIZE)
    /\ [][ \A c \in Callers :
             (enqueue_lfsm_action(c) /\ Len(lfsm_queue) = KFIFO_SIZE) =>
                 /\ rlast'[c].ret = "-ENOSPC"
                 /\ UNCHANGED << lfsm_queue, lfsm_work_active, pending >> ]_vars

\* C4's case: a call has returned -ENOSPC with 16 actions queued.
C4_Witness ==
    \E c \in Callers :
        /\ rpc[c] = "idle"
        /\ rlast[c].ret = "-ENOSPC"
        /\ Len(lfsm_queue) = KFIFO_SIZE

\* The changes of state of the cycle Down -> Starting -> Up -> Stopping -> Down.
ValidSteps ==
    { << LINK_DOWN, LINK_STARTING >>, << LINK_STARTING, LINK_UP >>,
      << LINK_UP, LINK_STOPPING >>, << LINK_STOPPING, LINK_DOWN >> }

\* C5: with only lfsm_link_up / lfsm_link_down called and no watchdog
\* expiry, every change of the link state is a step of the cycle
\* Down -> Starting -> Up -> Stopping -> Down.
C5_ValidPath ==
    [][ link_lfsm_state' # link_lfsm_state =>
            << link_lfsm_state, link_lfsm_state' >> \in ValidSteps ]_vars

\* Nothing is queued, scheduled or running, and the watchdog is neither
\* armed nor running.
Settled ==
    /\ lfsm_queue = << >>
    /\ \A w \in Works : ~busy(w)

\* C6 as claimed: whenever the queue is empty, no dispatcher or transition
\* worker is pending or running and the watchdog is neither armed nor
\* firing, the state is LINK_DOWN or LINK_UP.
C6_NoSettledTransient ==
    Settled => link_lfsm_state \in { LINK_DOWN, LINK_UP }

\* C6 as amended: the same, in states where no lfsm_force_down call is in
\* progress.
C6_NoSettledTransientOutsideForceDown ==
    (Settled /\ fpc \in { "idle", "done" }) =>
        link_lfsm_state \in { LINK_DOWN, LINK_UP }

\* C6's case: the machine has settled in LINK_UP after a transition, with no
\* lfsm_force_down in progress.
C6_Witness ==
    /\ Settled
    /\ fpc \in { "idle", "done" }
    /\ link_lfsm_state = LINK_UP
    /\ ~lfsm_work_active

\* C7: at the return of lfsm_force_down the state is LINK_DOWN, the queue
\* is empty and the active flag is false.
C7_ForceDownPost ==
    [][ (fpc # "done" /\ fpc' = "done") =>
            /\ link_lfsm_state' = LINK_DOWN
            /\ lfsm_queue' = << >>
            /\ ~lfsm_work_active' ]_vars

\* C7's case: lfsm_force_down has returned after overwriting LINK_STARTING.
C7_Witness ==
    /\ fpc = "done"
    /\ fseen = LINK_STARTING
    /\ link_lfsm_state = LINK_DOWN
    /\ lfsm_queue = << >>
    /\ ~lfsm_work_active

\* C8: when lfsm_force_down returns, no work item is pending or running,
\* and from then on, no call being made, the state stays LINK_DOWN.
C8_ForceDownQuiescent ==
    [][ /\ (fpc # "done" /\ fpc' = "done") => \A w \in Works : ~busy(w)'
        /\ (fpc = "done" /\ fpc' = "done") => link_lfsm_state' = LINK_DOWN ]_vars

\* C9: a call to lfsm_force_down always returns: while one is in progress,
\* some call in progress or work item can take a step.  (Stated for the
\* build in which accepted requests return.)
C9_ForceDownNoDeadlock ==
    (build = "UP" /\ fpc \notin { "idle", "done" }) => ENABLED Progress

\* C10: once the watchdog has fired during a transition the machine
\* recovers to LINK_DOWN with an empty queue, a clear active flag and a free
\* lock: while lfsm_timeout_worker is running, some call in progress or
\* work item can take a step.  (Stated for the same build.)
C10_WatchdogRecovers ==
    (build = "UP" /\ wpc[lfsm_timeout_work] # "idle") => ENABLED Progress

\* C11: the dispatcher pops actions in the order in which they were enqueued,
\* each at most once: the queue changes only by an enqueue that adds one
\* action at the back, by a dispatcher run that removes the action at the
\* front and serves that very action, or by a reset that discards all of it.
C11_Fifo ==
    [][ lfsm_queue' # lfsm_queue =>
          \/ \E c \in Callers :
                /\ enqueue_lfsm_action(c)
                /\ lfsm_queue' = Append(lfsm_queue, enqueue_type(c))
          \/ /\ lfsm_dispatch_worker
             /\ lfsm_queue' = Tail(lfsm_queue)
             /\ link_lfsm_state' = dispatch_state(Head(lfsm_queue))
             /\ pending'[dispatch_work(Head(lfsm_queue))]
                    \/ canceling[dispatch_work(Head(lfsm_queue))] # {}
          \/ /\ timeout_reset \/ force_down_reset
             /\ lfsm_queue' = << >> ]_vars

\* C11's case: with a bring-up queued ahead of a bring-down, the dispatcher
\* has served the bring-up and left the bring-down queued.
C11_Witness ==
    /\ lfsm_queue = << LFSM_ACT_LINK_DOWN >>
    /\ link_lfsm_state = LINK_STARTING
    /\ pending[lfsm_up_work]
    /\ wpc[lfsm_worker] = "idle"

\* A transition worker is scheduled or running and has not committed yet.
uncommitted(w) ==
    pending[w] \/ wpc[w] \in { "msleep", "spin_lock", "cancel_timeout" }

\* C12: at most one transition worker is scheduled or running without
\* having committed, and the dispatcher starts a transition only when no
\* worker scheduled earlier is still short of its commit.
C12_OneInFlight ==
    /\ [](~(uncommitted(lfsm_up_work) /\ uncommitted(lfsm_down_work)))
    /\ [][ (lfsm_dispatch_worker /\ lfsm_queue # << >>) =>
              \A w \in { lfsm_up_work, lfsm_down_work } : ~uncommitted(w) ]_vars

\* C13 as claimed: a transition worker reaches its publish exactly by
\* committing; what follows each commit, outside the lock, is one multicast
\* of the committed state and one call of the observers with the committed
\* state.
C13_OneEventPerCommit ==
    /\ [](\A w \in { lfsm_up_work, lfsm_down_work } :
            /\ wpc[w] = "notify" => ENABLED lfsm_notify_state(w)
            /\ wpc[w] = "call_chain" => ENABLED transition_notify(w))
    /\ [][ \A w \in { lfsm_up_work, lfsm_down_work } :
             /\ (wpc[w] # "notify" /\ wpc'[w] = "notify") <=> transition_commit(w)
             /\ lfsm_notify_state(w) =>
                    /\ w \notin lfsm_lock
                    /\ mcast[w] = "none"
                    /\ mcast'[w] = commit_state(w, link_lfsm_state)
             /\ transition_notify(w) =>
                    /\ w \notin lfsm_lock
                    /\ mcast[w] = commit_state(w, link_lfsm_state)
                    /\ notify_state(w) = commit_state(w, link_lfsm_state) ]_vars

\* C13 as amended: the same, with at most one multicast per commit: the
\* message carries the committed state or, when it cannot be allocated or
\* built, is not sent at all.
C13_OneEventPerCommitBestEffort ==
    /\ [](\A w \in { lfsm_up_work, lfsm_down_work } :
            /\ wpc[w] = "notify" => ENABLED lfsm_notify_state(w)
            /\ wpc[w] = "call_chain" => ENABLED transition_notify(w))
    /\ [][ \A w \in { lfsm_up_work, lfsm_down_work } :
             /\ (wpc[w] # "notify" /\ wpc'[w] = "notify") <=> transition_commit(w)
             /\ lfsm_notify_state(w) =>
                    /\ w \notin lfsm_lock
                    /\ mcast[w] = "none"
                    /\ mcast'[w] \in { commit_state(w, link_lfsm_state), "dropped" }
             /\ transition_notify(w) =>
                    /\ w \notin lfsm_lock
                    /\ mcast[w] \in { commit_state(w, link_lfsm_state), "dropped" }
                    /\ notify_state(w) = commit_state(w, link_lfsm_state) ]_vars

\* C13's case: lfsm_down_worker has committed LINK_DOWN, multicast it and is
\* about to call the observers.
C13_Witness ==
    /\ wpc[lfsm_down_work] = "call_chain"
    /\ mcast[lfsm_down_work] = LINK_DOWN
    /\ lfsm_down_work \notin lfsm_lock

\* A transition worker has committed and has not finished notifying.
notifying(w) == wpc[w] \in { "notify", "call_chain" }

\* C14: the observers are notified of a committed transition before the
\* next served action commits: no worker commits while the other worker is
\* still between its own commit and the end of its notification.
C14_NotifyBeforeNextCommit ==
    [][ \A w \in { lfsm_up_work, lfsm_down_work } :
          transition_commit(w) =>
              \A v \in { lfsm_up_work, lfsm_down_work } \ {w} : ~notifying(v) ]_vars

\* C15 as claimed: an enqueue that stores its action while the active flag
\* is false sets the flag and leaves the dispatcher scheduled; one that
\* stores its action while the flag is true schedules nothing; and whenever
\* no thread is in a locked section and the queue is not empty, the flag
\* is true.
C15_EnqueueAndWake ==
    /\ [](lfsm_lock = {} /\ lfsm_queue # << >> => lfsm_work_active)
    /\ [][ \A c \in Callers :
             (enqueue_lfsm_action(c) /\ lfsm_queue' # lfsm_queue) =>
                 /\ lfsm_work_active'
                 /\ ~lfsm_work_active => pending'[lfsm_worker]
                 /\ lfsm_work_active => pending' = pending ]_vars

\* A caller issues a request.
Request == \E c \in Callers : lfsm_link_up(c) \/ lfsm_link_down(c)

\* C16: under fair scheduling no accepted action is stranded: once callers
\* stop issuing requests, every queued action is popped or discarded, so
\* from some point on the queue is empty and the active flag is false.
C16_NoStrandedAction ==
    <>[][~Request]_vars => <>[](lfsm_queue = << >> /\ ~lfsm_work_active)

\* The work item a thread inside cancel_*_sync is waiting for, if it is a
\* work function that is: the item its position names.
cancel_target(w) ==
    IF wpc[w] = "cancel_timeout" THEN lfsm_timeout_work
    ELSE IF wpc[w] = "cancel_up" THEN lfsm_up_work
    ELSE lfsm_down_work

\* Work function w is inside a cancel_*_sync call.
in_cancel(w) == wpc[w] \in { "cancel_timeout", "cancel_up", "cancel_down" }

\* C17: no unit holds lfsm_lock while waiting for another work item to
\* finish or be cancelled.
C17_NoCancelUnderLock ==
    \A w \in Works :
        ~(w \in lfsm_lock /\ in_cancel(w) /\ wpc[cancel_target(w)] # "idle")

\* C18: a transition worker commits only a transition it still owns:
\* lfsm_up_worker sets LINK_UP only on finding LINK_STARTING and
\* lfsm_down_worker sets LINK_DOWN only on finding LINK_STOPPING, so a
\* worker whose transition was reset never overwrites the resulting state.
C18_StaleWorkerGuard ==
    [][ /\ (transition_commit(lfsm_up_work) /\ link_lfsm_state' = LINK_UP) =>
               link_lfsm_state = LINK_STARTING
        /\ (transition_commit(lfsm_down_work) /\ link_lfsm_state' = LINK_DOWN) =>
               link_lfsm_state = LINK_STOPPING ]_vars

\* C19: the watchdog is one delayed work item, so at most one deadline is
\* armed; the dispatcher arms it each time it begins a transition and finds
\* it neither armed nor firing at that moment; and it is not armed when the
\* matching worker has committed.
C19_WatchdogArming ==
    [][ /\ (lfsm_dispatch_worker /\ lfsm_queue # << >>) =>
               /\ ~busy(lfsm_timeout_work)
               /\ pending'[lfsm_timeout_work]
        /\ \A w \in { lfsm_up_work, lfsm_down_work } :
               transition_commit(w) => ~pending'[lfsm_timeout_work] ]_vars

\* C20: one run of the dispatcher removes at most the action at the front
\* of the queue.  On an empty queue it clears the active flag and changes
\* nothing else.  On popping an action it sets the transient state of that
\* action, arms the watchdog, schedules the worker of that action and no
\* other work item, and leaves the active flag true.
C20_DispatcherStep ==
    [][ lfsm_dispatch_worker =>
          IF lfsm_queue = << >>
          THEN /\ ~lfsm_work_active'
               /\ UNCHANGED << lfsm_queue, link_lfsm_state, pending, canceling,
                               lfsm_lock >>
          ELSE LET act == Head(lfsm_queue)
                   w == IF act = LFSM_ACT_LINK_UP THEN lfsm_up_work
                        ELSE lfsm_down_work
               IN /\ lfsm_queue' = Tail(lfsm_queue)
                  /\ link_lfsm_state' = IF act = LFSM_ACT_LINK_UP
                                        THEN LINK_STARTING ELSE LINK_STOPPING
                  /\ pending'[lfsm_timeout_work]
                  /\ pending'[w]
                  /\ \A v \in Works \ { w, lfsm_timeout_work } :
                         pending'[v] = pending[v]
                  /\ lfsm_work_active /\ lfsm_work_active' ]_vars

====
